---- MODULE Spec2Model ----
(***************************************************************************)
(* A model of the randomized minimum-cut engine of kortschak/graph:        *)
(* the weighted Selector (an implicit binary tree over a flat array), the  *)
(* contraction contexts kargerR / kargerRP layered over a shared graph,    *)
(* and the three drivers FastRandMinCut, FastRandMinCutPar and             *)
(* ParFastRandMinCut.                                                      *)
(*                                                                         *)
(* Slices and structs reached through pointers are heap objects: a context *)
(* struct lives in kas under an id, its ind and sel arrays live in indH    *)
(* and selH under references, so that aliasing (sub[0] is ka itself, the   *)
(* struct copy *ka = *sub[1] shares sub[1]'s arrays) is what the code      *)
(* makes it.  Weights are integers; a draw r = total*rand.Float64() is     *)
(* represented by r2 = 2r ranging over 0 .. 2*total-1, which covers every  *)
(* integer boundary and every open interval between two boundaries.        *)
(***************************************************************************)
EXTENDS Integers, Sequences, FiniteSets, TLC

VARIABLES
    g,        \* the graph handed to the driver (shared by every context)
    driver,   \* "seq" FastRandMinCut, "par" FastRandMinCutPar, "rp" ParFastRandMinCut
    iter,     \* the driver's iter argument
    arg,      \* the driver's third argument: thread (par) or threads/split budget (rp)
    maxProcs, \* the package variable MaxProcs
    tasks,    \* goroutines: id -> [stack, n]; the main goroutine is 0
    kas,      \* heap of kargerR / kargerRP structs
    indH,     \* heap of []super arrays
    selH,     \* heap of Selector arrays
    pc,       \* "init", "run", "done", "panic" (run-time panic), "overflow" (goroutine stack exhausted)
    ret,      \* the (c, w) the driver returned
    rs,       \* FastRandMinCutPar's result slots
    trials,   \* every (c, w) a call of fastRandMinCut from a driver loop produced
    selector, \* a Selector used on its own: the array of WeightedItem
    call,     \* the last call made on it: its name, arguments, result and the array before
    picked,   \* the Index values Select returned since the last Init or Weight
    ug,       \* an Undirected graph under mutation
    gcall,    \* the last call made on it; for a removal, with the graph before and after
    built,    \* the graph BuildUndirected returned
    searcher, \* a BreadthFirst or DepthFirst searcher: its queue or stack and visited list
    search    \* the last call made on the searcher

\* the state of the min-cut drivers
cutVars == <<g, driver, iter, arg, maxProcs, tasks, kas, indH, selH, pc, ret, rs, trials>>
\* the state of a Selector used on its own
selVars == <<selector, call, picked>>
\* the state of a graph under mutation
graphVars == <<ug, gcall, built>>
\* what the min-cut drivers leave alone
searchVars == <<searcher, search>>
libVars == <<selVars, graphVars, searchVars>>

vars == <<cutVars, libVars>>

\* ----------------------------------------------------------------- bounds
MaxIter == 2
MaxParIter == 3
MaxThread == 2
MaxProcsBound == 2
MaxSplit == 1
MaxDepth == 4
MaxLen == 3
LightWeight == 7
HeavyWeight == 9
MantissaBits == 4
MaxNodeID == 2
MaxEdgeID == 1

\* ------------------------------------------------------------- constants
\* math.Inf(1), the drivers' initial best weight
Inf == -1
\* the base case of the recursion: order <= 6
SmallOrder == 6

Nil == <<>>

\* a < b on weights, where Inf stands for +Inf
LessW(a, b) == IF a = Inf THEN FALSE ELSE IF b = Inf THEN TRUE ELSE a < b

\* ------------------------------------------------------------------ graph
\* An Undirected graph: the compact node array (node ids), the id counter,
\* the compact edge array.  An edge is (id, u, v, weight); Tail is u, Head is v.
E(id, u, v, w) == [id |-> id, u |-> u, v |-> v, weight |-> w]

EdgeHead(e) == e.v
EdgeTail(e) == e.u

Order(G) == Len(G.nodes)
Size(G) == Len(G.edges)
NextNodeID(G) == G.nextNodeID
Edges(G) == G.edges
Nodes(G) == G.nodes
Edge(G, id) == CHOOSE e \in {G.edges[i] : i \in DOMAIN G.edges} : e.id = id

\* ---------------------------------------------------------------- Selector
\* float64 arithmetic, scaled down: a value is a whole number of half units,
\* and a result is rounded to the nearest value that has MantissaBits
\* significant bits, a tie going to the even mantissa.  Weights and totals
\* are kept in units, draws in half units.
RECURSIVE Ulp(_, _)
Ulp(x, step) == IF x < (2 ^ MantissaBits) * step THEN step ELSE Ulp(x, 2 * step)
RoundPos(x) ==
    LET step == Ulp(x, 1)
        q == x \div step
        rem == x % step
    IN IF 2 * rem < step THEN q * step
       ELSE IF 2 * rem > step THEN (q + 1) * step
       ELSE IF q % 2 = 0 THEN q * step ELSE (q + 1) * step
\* the float64 nearest to x half units
Fl(x) == IF x < 0 THEN 0 - RoundPos(0 - x) ELSE RoundPos(x)
\* the float64 nearest to x units
FlU(x) == Fl(2 * x) \div 2

RECURSIVE InitUp(_, _)
InitUp(s, i) ==
    IF i <= 1 THEN s
    ELSE InitUp([s EXCEPT ![i \div 2].total = FlU(@ + s[i].total)], i - 1)

\* Selector.Init: total := Weight, then every position adds its total into its parent
SelectorInit(s) ==
    InitUp([i \in DOMAIN s |-> [s[i] EXCEPT !.total = s[i].Weight]], Len(s))

\* The descent of Select from 1-based position i with remaining draw r (doubled).
\* 0 stands for an index out of range.
RECURSIVE Descend(_, _, _)
Descend(s, r, i) ==
    IF i > Len(s) THEN 0
    ELSE LET r1 == Fl(r - 2 * s[i].Weight) IN
         IF r1 <= 0 THEN i
         ELSE LET l == 2 * i IN
              IF l > Len(s) THEN 0
              ELSE LET d == 2 * s[l].total IN
                   IF r1 > d THEN Descend(s, Fl(r1 - d), l + 1)
                   ELSE Descend(s, r1, l)

RECURSIVE Propagate(_, _, _)
Propagate(s, w, i) ==
    IF i <= 0 THEN s
    ELSE Propagate([s EXCEPT ![i].total = FlU(@ - w)], w, i \div 2)

\* s[0].total == 0
selectorEmpty(s) == s[1].total = 0

\* Selector.Select with draw r (doubled): st is "ok", "empty" (SelectorEmpty)
\* or "panic" (index out of range)
Select(s, r) ==
    IF Len(s) = 0 THEN [st |-> "panic", index |-> -1, s |-> s]
    ELSE IF selectorEmpty(s) THEN [st |-> "empty", index |-> -1, s |-> s]
    ELSE LET i == Descend(s, r, 1) IN
         IF i = 0 THEN [st |-> "panic", index |-> -1, s |-> s]
         ELSE [st |-> "ok", index |-> s[i].Index,
               s |-> Propagate([s EXCEPT ![i].Weight = 0], s[i].Weight, i)]

\* the values of r2 = 2 * s[0].total * rand.Float64(): the float64 values of
\* [0, total), or of (total, 0] when the total is negative, where every draw
\* ends the descent at once as 0 does
Draws(s) ==
    IF Len(s) = 0 \/ s[1].total <= 0 THEN {0}
    ELSE {r \in 0 .. (2 * s[1].total - 1) : Fl(r) = r}

\* Selector.Weight(i, w), i a 0-based position: the item's weight becomes w and
\* the difference is taken off the totals from the item up to the root
SelectorWeight(s, i, w) ==
    Propagate([s EXCEPT ![i + 1].Weight = w], FlU(s[i + 1].Weight - w), i + 1)

\* ------------------------------------------------------ contraction context
\* newKargerR / newKargerRP: zeroed arrays sized by NextNodeID and Size
newInd(G) == [i \in 0 .. (NextNodeID(G) - 1) |-> [label |-> 0, nodes |-> <<>>]]
newSel(G) == [i \in 1 .. Size(G) |-> [Index |-> 0, Weight |-> 0, total |-> 0]]
newKarger(ref) ==
    [order |-> 0, ind |-> ref, sel |-> ref, c |-> <<>>, w |-> 0, count |-> 0, split |-> 0]

\* init: order, labels and the selector are reset in place
initInd(G, ind) ==
    [i \in DOMAIN ind |->
        [label |-> IF \E k \in DOMAIN G.nodes : G.nodes[k] = i THEN i ELSE -1,
         nodes |-> <<>>]]
initSel(G, sel) ==
    SelectorInit([i \in DOMAIN sel |->
        [sel[i] EXCEPT !.Index = G.edges[i].id, !.Weight = G.edges[i].weight]])

\* a loop test that looks at the graph's endpoints instead of the labels
loop_SelfLoopOnly(ind, e) == EdgeHead(e) = EdgeTail(e)

\* loop: both endpoints carry the same label
loop(ind, e) == ind[EdgeHead(e)].label = ind[EdgeTail(e)].label

\* a relabelling that reaches the last member of the list only
Relabel_LastOnly(ind, list, k, hid) ==
    IF list = <<>> THEN ind
    ELSE [ind EXCEPT ![list[Len(list)]].label = ind[hid].label]

\* for _, n := range ka.ind[hl].nodes { ka.ind[n].label = ka.ind[hid].label }
RECURSIVE Relabel(_, _, _, _)
Relabel(ind, list, k, hid) ==
    IF k > Len(list) THEN ind
    ELSE Relabel([ind EXCEPT ![list[k]].label = ind[hid].label], list, k + 1, hid)

\* a merge that relabels the absorbed endpoint alone
merge_RelabelsTailOnly(ind, e) ==
    LET hid0 == EdgeHead(e)
        tid0 == EdgeTail(e)
        hl0 == ind[hid0].label
        tl0 == ind[tid0].label
        swap == Len(ind[hl0].nodes) < Len(ind[tl0].nodes)
        hid == IF swap THEN tid0 ELSE hid0
        tid == IF swap THEN hid0 ELSE tid0
        hl == IF swap THEN tl0 ELSE hl0
        tl == IF swap THEN hl0 ELSE tl0
        a1 == IF ind[hl].nodes = <<>> THEN [ind EXCEPT ![hl].nodes = <<hid>>] ELSE ind
        a2 == IF a1[tl].nodes = <<>>
              THEN [a1 EXCEPT ![hl].nodes = Append(@, tid)]
              ELSE [a1 EXCEPT ![hl].nodes = @ \o a1[tl].nodes, ![tl].nodes = <<>>]
    IN [a2 EXCEPT ![tid].label = a2[hid].label]

\* the merge of a non-loop edge e in the super-node array
merge(ind, e) ==
    LET hid0 == EdgeHead(e)
        tid0 == EdgeTail(e)
        hl0 == ind[hid0].label
        tl0 == ind[tid0].label
        swap == Len(ind[hl0].nodes) < Len(ind[tl0].nodes)
        hid == IF swap THEN tid0 ELSE hid0
        tid == IF swap THEN hid0 ELSE tid0
        hl == IF swap THEN tl0 ELSE hl0
        tl == IF swap THEN hl0 ELSE tl0
        a1 == IF ind[hl].nodes = <<>> THEN [ind EXCEPT ![hl].nodes = <<hid>>] ELSE ind
        a2 == IF a1[tl].nodes = <<>>
              THEN [a1 EXCEPT ![hl].nodes = Append(@, tid)]
              ELSE [a1 EXCEPT ![hl].nodes = @ \o a1[tl].nodes, ![tl].nodes = <<>>]
    IN Relabel(a2, a2[hl].nodes, 1, hid)

\* a loop that runs one round too many: order >= k
contractMore_OffByOne(order, k) == order >= k

\* the loop condition of randContract(k) and randCompact(k)
contractMore(order, k) == order > k

\* an iteration that contracts in the graph itself: the drawn edge, once merged,
\* is taken out of the graph's edge array
contractIter_OnGraph(G, order, ind, sel, r) ==
    LET s == Select(sel, r) IN
    IF s.st = "panic" THEN [st |-> "panic", g |-> G, order |-> order, ind |-> ind, sel |-> sel]
    ELSE IF s.st = "empty" THEN [st |-> "break", g |-> G, order |-> order, ind |-> ind, sel |-> sel]
    ELSE LET e == Edge(G, s.index) IN
         IF loop(ind, e)
         THEN [st |-> "ok", g |-> G, order |-> order, ind |-> ind, sel |-> s.s]
         ELSE [st |-> "ok", g |-> [G EXCEPT !.edges = SelectSeq(@, LAMBDA x : x.id # e.id)],
               order |-> order - 1, ind |-> merge(ind, e), sel |-> s.s]

\* One iteration of the loop of randContract / randCompact on a context whose
\* order exceeds k, with draw r.  The result names what the iteration leaves
\* behind: the graph, the context's order, ind and sel, and st, which is "ok"
\* (continue the loop), "break" (SelectorEmpty) or "panic".
contractIter(G, order, ind, sel, r) ==
    LET s == Select(sel, r) IN
    IF s.st = "panic" THEN [st |-> "panic", g |-> G, order |-> order, ind |-> ind, sel |-> sel]
    ELSE IF s.st = "empty" THEN [st |-> "break", g |-> G, order |-> order, ind |-> ind, sel |-> sel]
    ELSE LET e == Edge(G, s.index) IN
         IF loop(ind, e)
         THEN [st |-> "ok", g |-> G, order |-> order, ind |-> ind, sel |-> s.s]
         ELSE [st |-> "ok", g |-> G, order |-> order - 1, ind |-> merge(ind, e), sel |-> s.s]

RECURSIVE SumW(_, _)
SumW(es, k) == IF k > Len(es) THEN 0 ELSE es[k].weight + SumW(es, k + 1)

\* the tail of randCompact: c is the list of non-loop edges (by id), w their weight
notLoopEdges(G, ind) == SelectSeq(Edges(G), LAMBDA e : ~loop(ind, e))
\* a cut whose weight is taken before the loop test: every edge is summed
randCompactCut_SumsAll(G, ind) ==
    LET es == notLoopEdges(G, ind) IN
    [c |-> [i \in DOMAIN es |-> es[i].id], w |-> SumW(Edges(G), 1)]
randCompactCut(G, ind) ==
    LET es == notLoopEdges(G, ind) IN
    [c |-> [i \in DOMAIN es |-> es[i].id], w |-> SumW(es, 1)]

\* t := int(math.Ceil(float64(order)/sqrt2 + 1)): the least t with (t-1)*sqrt2 >= order
ContractTarget(order) ==
    CHOOSE t \in 1 .. (order + 1) :
        /\ 2 * (t - 1) * (t - 1) >= order * order
        /\ \A u \in 1 .. (t - 1) : 2 * (u - 1) * (u - 1) < order * order

\* clone: a new struct with fresh arrays; order is copied (and count for
\* kargerRP), c, w and split are left zero
\* a clone that copies the labels and leaves every member list nil
cloneInd_LabelsOnly(ind) == [i \in DOMAIN ind |-> [label |-> ind[i].label, nodes |-> <<>>]]
cloneInd(ind) == [i \in DOMAIN ind |-> [label |-> ind[i].label, nodes |-> ind[i].nodes]]
cloneSel(sel) == [i \in DOMAIN sel |-> sel[i]]
cloneR(K, ref) ==
    [order |-> K.order, ind |-> ref, sel |-> ref, c |-> <<>>, w |-> 0, count |-> 0, split |-> 0]
\* a clone that keeps the original's selector array instead of copying it
cloneRP_SharedSel(K, ref) ==
    [order |-> K.order, ind |-> ref, sel |-> K.sel, c |-> <<>>, w |-> 0, count |-> K.count, split |-> 0]
cloneRP(K, ref) ==
    [order |-> K.order, ind |-> ref, sel |-> ref, c |-> <<>>, w |-> 0, count |-> K.count, split |-> 0]

\* ----------------------------------------------------------------- inputs
Graph(ns, next, es) == [nodes |-> ns, nextNodeID |-> next, edges |-> es]

\* no node at all
GEmpty == Graph(<<>>, 0, <<>>)
\* one node carrying a self-loop
GSingle == Graph(<<0>>, 1, <<E(0, 0, 0, 2)>>)
\* a self-loop (0,0,5) and an edge (0,1,1)
GSelfLoop == Graph(<<0, 1>>, 2, <<E(0, 0, 0, 5), E(1, 0, 1, 1)>>)
\* the unit-weight triangle
GTriangle == Graph(<<0, 1, 2>>, 3, <<E(0, 0, 1, 1), E(1, 1, 2, 1), E(2, 0, 2, 1)>>)
\* a triangle whose cuts weigh 2, 3 and 3
GTriWeighted == Graph(<<0, 1, 2>>, 3, <<E(0, 0, 1, 1), E(1, 1, 2, 1), E(2, 0, 2, 2)>>)
\* three nodes and no edge
GNoEdges == Graph(<<0, 1, 2>>, 3, <<>>)
\* a graph after removals: node id 1 is gone, nodes and edges are out of id
\* order, edge ids are sparse; a zero-weight edge, a parallel edge, a self-loop
GSparse == Graph(<<3, 0, 2>>, 4,
                 <<E(2, 0, 2, 1), E(0, 2, 3, 0), E(5, 3, 3, 1), E(1, 0, 3, 2), E(4, 2, 0, 1)>>)
\* two components, and a third isolated node
GTwoComp == Graph(<<0, 1, 2, 3, 4>>, 5, <<E(0, 0, 1, 1), E(1, 2, 3, 2)>>)
\* seven nodes on a path whose last edge weighs nothing
GSeven == Graph(<<0, 1, 2, 3, 4, 5, 6>>, 7,
                <<E(0, 0, 1, 2), E(1, 1, 2, 1), E(2, 2, 3, 1), E(3, 3, 4, 1),
                  E(4, 4, 5, 1), E(5, 5, 6, 0)>>)
\* seven nodes of which three are isolated
GSevenLoose == Graph(<<0, 1, 2, 3, 4, 5, 6>>, 7,
                     <<E(0, 0, 1, 1), E(1, 1, 2, 1), E(2, 2, 3, 1), E(3, 0, 2, 1)>>)
\* seven nodes joined by a single edge
GSevenOneEdge == Graph(<<0, 1, 2, 3, 4, 5, 6>>, 7, <<E(0, 5, 6, 3)>>)
\* eight nodes joined by a single edge
GEightOneEdge == Graph(<<0, 1, 2, 3, 4, 5, 6, 7>>, 8, <<E(0, 0, 1, 1)>>)

SeqGraphs ==
    {GEmpty, GSingle, GSelfLoop, GTriangle, GNoEdges, GSparse, GTwoComp, GSeven,
     GSevenLoose, GEightOneEdge}
ParGraphs == {GEmpty, GSelfLoop, GTriWeighted, GNoEdges, GSevenOneEdge}
RPGraphs == {GSingle, GTriangle, GNoEdges, GSevenLoose, GSevenOneEdge, GEightOneEdge}

\* ------------------------------------------------------------------ frames
\* A stack frame.  fn is "loop" (a driver's or worker's iteration loop),
\* "frmc" (fastRandMinCut) or "go" (the goroutine body of the recursion tree).
Frame(fn, p, ka) ==
    [fn |-> fn, pc |-> p, ka |-> ka, sub1 |-> Nil, t |-> 0, i |-> 0, n |-> 0,
     c |-> <<>>, w |-> 0, wg |-> FALSE, cnt |-> 0]

Depth(t) == Len(tasks[t].stack)
Top(t) == tasks[t].stack[Depth(t)]
Running(t) == pc = "run" /\ t \in DOMAIN tasks /\ Depth(t) > 0
\* the context a frame is working on: sub[i]
Cur(f) == IF f.fn = "frmc" /\ f.i = 1 THEN f.sub1 ELSE f.ka

WithTop(ts, t, f) == [ts EXCEPT ![t].stack = [@ EXCEPT ![Len(@)] = f]]
Push(ts, t, f) == [ts EXCEPT ![t].stack = Append(@, f)]
\* return to the caller, which resumes at "ret"
Return(ts, t) ==
    LET s == ts[t].stack
        n == Len(s)
    IN [ts EXCEPT ![t].stack =
            [k \in 1 .. (n - 1) |-> IF k = n - 1 THEN [s[k] EXCEPT !.pc = "ret"] ELSE s[k]]]

\* what the garbage collector keeps: structs a frame still points to, and the
\* arrays those structs point to
LiveIds(ts) ==
    UNION {UNION {{ts[t].stack[k].ka, ts[t].stack[k].sub1} :
                     k \in DOMAIN ts[t].stack} : t \in DOMAIN ts} \ {Nil}
Restrict(f, S) == [x \in S \cap DOMAIN f |-> f[x]]
LiveKas(ks, ts) == Restrict(ks, LiveIds(ts))
LiveInd(ih, ks) == Restrict(ih, {ks[x].ind : x \in DOMAIN ks})
LiveSel(sh, ks) == Restrict(sh, {ks[x].sel : x \in DOMAIN ks})

NoTasks == [x \in {} |-> 0]

\* --------------------------------------------------------- FastRandMinCut
\* ka := newKargerR(g); ka.init(); w = math.Inf(1)
SeqStart ==
    /\ pc = "init" /\ driver = "seq"
    /\ LET id == <<0, 0>> IN
       /\ kas' = (id :> [newKarger(id) EXCEPT !.order = Order(g)])
       /\ indH' = (id :> initInd(g, newInd(g)))
       /\ selH' = (id :> initSel(g, newSel(g)))
       /\ tasks' = (0 :> [stack |-> <<[Frame("loop", "loop", id) EXCEPT !.n = iter, !.w = Inf]>>,
                          n |-> 1])
    /\ pc' = "run"
    /\ UNCHANGED <<libVars, g, driver, iter, arg, maxProcs, ret, rs, trials>>

\* for i := 0; i < iter; i++ { ka.fastRandMinCut() ...
LoopCall(t) ==
    /\ Running(t)
    /\ Top(t).fn = "loop" /\ Top(t).pc = "loop" /\ Top(t).i < Top(t).n
    /\ tasks' = Push(WithTop(tasks, t, [Top(t) EXCEPT !.pc = "called"]), t,
                     Frame("frmc", "entry", Top(t).ka))
    /\ UNCHANGED <<libVars, g, driver, iter, arg, maxProcs, kas, indH, selH, pc, ret, rs, trials>>

\* ... if ka.w < w { w = ka.w; c = ka.c } }
LoopTake(t) ==
    /\ Running(t)
    /\ Top(t).fn = "loop" /\ Top(t).pc = "ret"
    /\ LET f == Top(t)
           K == kas[f.ka]
           better == LessW(K.w, f.w)
       IN /\ tasks' = WithTop(tasks, t,
                         [f EXCEPT !.pc = "loop", !.i = @ + 1,
                                   !.w = IF better THEN K.w ELSE @,
                                   !.c = IF better THEN K.c ELSE @])
          /\ trials' = trials \cup {[c |-> K.c, w |-> K.w]}
    /\ UNCHANGED <<libVars, g, driver, iter, arg, maxProcs, kas, indH, selH, pc, ret, rs>>

\* return (of FastRandMinCut and of ParFastRandMinCut)
DriverReturn ==
    /\ Running(0) /\ driver \in {"seq", "rp"}
    /\ Top(0).fn = "loop" /\ Top(0).pc = "loop" /\ Top(0).i >= Top(0).n
    /\ ret' = [c |-> Top(0).c, w |-> Top(0).w]
    /\ pc' = "done"
    /\ UNCHANGED <<libVars, g, driver, iter, arg, maxProcs, tasks, kas, indH, selH, rs, trials>>

\* ---------------------------------------------------------- fastRandMinCut
\* kargerR.fastRandMinCut up to the loop over sub
EnterR(t) ==
    /\ Running(t) /\ driver \in {"seq", "par"}
    /\ Top(t).fn = "frmc" /\ Top(t).pc = "entry"
    /\ LET f == Top(t)
           K == kas[f.ka]
           id == <<t, tasks[t].n>>
       IN IF K.order <= SmallOrder
          THEN /\ tasks' = WithTop(tasks, t, [f EXCEPT !.pc = "compact"])
               /\ UNCHANGED <<kas, indH, selH>>
          ELSE /\ kas' = kas @@ (id :> cloneR(K, id))
               /\ indH' = indH @@ (id :> cloneInd(indH[K.ind]))
               /\ selH' = selH @@ (id :> cloneSel(selH[K.sel]))
               /\ tasks' = [WithTop(tasks, t,
                               [f EXCEPT !.pc = "contract", !.sub1 = id, !.i = 0,
                                         !.t = ContractTarget(K.order)])
                            EXCEPT ![t].n = @ + 1]
    /\ UNCHANGED <<libVars, g, driver, iter, arg, maxProcs, pc, ret, rs, trials>>

\* one iteration of a contraction loop of task t on context id; when the
\* selector is empty the frame moves on to brk
IterStep(t, id, r, brk) ==
    LET K == kas[id]
        res == contractIter(g, K.order, indH[K.ind], selH[K.sel], r)
    IN /\ g' = res.g
       /\ kas' = [kas EXCEPT ![id].order = res.order]
       /\ indH' = [indH EXCEPT ![K.ind] = res.ind]
       /\ selH' = [selH EXCEPT ![K.sel] = res.sel]
       /\ pc' = IF res.st = "panic" THEN "panic" ELSE pc
       /\ tasks' = IF res.st = "break"
                   THEN WithTop(tasks, t, [Top(t) EXCEPT !.pc = brk])
                   ELSE tasks
       /\ UNCHANGED <<libVars, driver, iter, arg, maxProcs, ret, rs, trials>>

\* randCompact(2): an iteration of the loop
CompactIter(t) ==
    /\ Running(t)
    /\ Top(t).fn = "frmc" /\ Top(t).pc = "compact"
    /\ contractMore(kas[Top(t).ka].order, 2)
    /\ \E r \in Draws(selH[kas[Top(t).ka].sel]) : IterStep(t, Top(t).ka, r, "cut")

\* randCompact(2): the loop is over; collect the cut and return
CompactCut(t) ==
    /\ Running(t)
    /\ Top(t).fn = "frmc"
    /\ \/ Top(t).pc = "cut"
       \/ Top(t).pc = "compact" /\ ~contractMore(kas[Top(t).ka].order, 2)
    /\ LET id == Top(t).ka
           cut == randCompactCut(g, indH[kas[id].ind])
       IN kas' = [kas EXCEPT ![id].c = cut.c, ![id].w = cut.w]
    /\ tasks' = Return(tasks, t)
    /\ UNCHANGED <<libVars, g, driver, iter, arg, maxProcs, indH, selH, pc, ret, rs, trials>>

\* sub[i].randContract(t): an iteration of the loop
ContractIter(t) ==
    /\ Running(t)
    /\ Top(t).fn \in {"frmc", "go"} /\ Top(t).pc = "contract"
    /\ contractMore(kas[Cur(Top(t))].order, Top(t).t)
    /\ \E r \in Draws(selH[kas[Cur(Top(t))].sel]) : IterStep(t, Cur(Top(t)), r, "recurse")

\* sub[i].fastRandMinCut(): the recursive call
Recurse(t) ==
    /\ Running(t)
    /\ Top(t).fn \in {"frmc", "go"}
    /\ \/ Top(t).pc = "recurse"
       \/ Top(t).pc = "contract" /\ ~contractMore(kas[Cur(Top(t))].order, Top(t).t)
    /\ IF Depth(t) >= MaxDepth
       THEN pc' = "overflow" /\ UNCHANGED tasks
       ELSE /\ tasks' = Push(WithTop(tasks, t, [Top(t) EXCEPT !.pc = "called"]), t,
                             Frame("frmc", "entry", Cur(Top(t))))
            /\ UNCHANGED pc
    /\ UNCHANGED <<libVars, g, driver, iter, arg, maxProcs, kas, indH, selH, ret, rs, trials>>

\* the sequential loop over sub moves from sub[0] to sub[1]
NextSub(t) ==
    /\ Running(t)
    /\ Top(t).fn = "frmc" /\ Top(t).pc = "ret" /\ Top(t).i = 0
    /\ tasks' = WithTop(tasks, t, [Top(t) EXCEPT !.pc = "contract", !.i = 1])
    /\ UNCHANGED <<libVars, g, driver, iter, arg, maxProcs, kas, indH, selH, pc, ret, rs, trials>>

\* if sub[0].w < sub[1].w { *ka = *sub[0] } else { *ka = *sub[1] }
adopt(ks, f) ==
    [ks EXCEPT ![f.ka] = IF LessW(ks[f.ka].w, ks[f.sub1].w) THEN ks[f.ka] ELSE ks[f.sub1]]

Adopt(t) ==
    /\ Running(t)
    /\ Top(t).fn = "frmc" /\ Top(t).pc = "ret" /\ Top(t).i = 1
    /\ tasks' = Return(tasks, t)
    /\ kas' = LiveKas(adopt(kas, Top(t)), tasks')
    /\ indH' = LiveInd(indH, kas')
    /\ selH' = LiveSel(selH, kas')
    /\ UNCHANGED <<libVars, g, driver, iter, arg, maxProcs, pc, ret, rs, trials>>

\* ------------------------------------------------------ FastRandMinCutPar
Min2(a, b) == IF a < b THEN a ELSE b

\* the number of workers: thread clipped to MaxProcs, then to iter
parThreads(thread, procs, it) ==
    LET t1 == IF thread > procs THEN procs ELSE thread
    IN IF t1 > it THEN it ELSE t1

\* a spawning loop that never counts the remainder down
RECURSIVE parShares_NoCountdown(_, _, _, _)
parShares_NoCountdown(j, thread, it, rem) ==
    IF j >= thread THEN <<>>
    ELSE LET it1 == IF rem = 0 THEN it - 1 ELSE it
         IN <<it1>> \o parShares_NoCountdown(j + 1, thread, it1, rem)

\* The spawning loop: worker j is started with the value iter has after the
\* two ifs of round j.  The result is the sequence of those values.
RECURSIVE parShares(_, _, _, _)
parShares(j, thread, it, rem) ==
    IF j >= thread THEN <<>>
    ELSE LET it1 == IF rem = 0 THEN it - 1 ELSE it
             rem1 == IF rem >= 0 THEN rem - 1 ELSE rem
         IN <<it1>> \o parShares(j + 1, thread, it1, rem1)

\* FastRandMinCutPar up to wg.Wait(): the clipping of thread, iter/thread+1
\* and iter%thread (a division by zero panics), rs, and the workers
ParStart ==
    /\ pc = "init" /\ driver = "par"
    /\ LET thread == parThreads(arg, maxProcs, iter) IN
       IF thread = 0
       THEN pc' = "panic" /\ UNCHANGED <<tasks, rs>>
       ELSE LET shares == parShares(0, thread, (iter \div thread) + 1, iter % thread) IN
            /\ pc' = "run"
            /\ rs' = [j \in 1 .. thread |-> [set |-> FALSE, c |-> <<>>, w |-> 0]]
            /\ tasks' = [t \in 0 .. thread |->
                           IF t = 0
                           THEN [stack |-> <<Frame("par", "wait", Nil)>>, n |-> 0]
                           ELSE [stack |-> <<[Frame("loop", "start", Nil)
                                                EXCEPT !.n = shares[t], !.w = Inf]>>,
                                 n |-> 0]]
    /\ UNCHANGED <<libVars, g, driver, iter, arg, maxProcs, kas, indH, selH, ret, trials>>

\* a worker's ka := newKargerR(g); ka.init()
WorkerStart(t) ==
    /\ Running(t) /\ driver = "par"
    /\ Top(t).fn = "loop" /\ Top(t).pc = "start"
    /\ LET id == <<t, tasks[t].n>> IN
       /\ kas' = kas @@ (id :> [newKarger(id) EXCEPT !.order = Order(g)])
       /\ indH' = indH @@ (id :> initInd(g, newInd(g)))
       /\ selH' = selH @@ (id :> initSel(g, newSel(g)))
       /\ tasks' = [WithTop(tasks, t, [Top(t) EXCEPT !.pc = "loop", !.ka = id])
                    EXCEPT ![t].n = @ + 1]
    /\ UNCHANGED <<libVars, g, driver, iter, arg, maxProcs, pc, ret, rs, trials>>

\* a worker's rs[j] = &r{c, w}, and wg.Done()
WorkerDone(t) ==
    /\ Running(t) /\ driver = "par" /\ t >= 1
    /\ Top(t).fn = "loop" /\ Top(t).pc = "loop" /\ Top(t).i >= Top(t).n
    /\ rs' = [rs EXCEPT ![t] = [set |-> TRUE, c |-> Top(t).c, w |-> Top(t).w]]
    /\ tasks' = [tasks EXCEPT ![t].stack = <<>>]
    /\ kas' = LiveKas(kas, tasks')
    /\ indH' = LiveInd(indH, kas')
    /\ selH' = LiveSel(selH, kas')
    /\ UNCHANGED <<libVars, g, driver, iter, arg, maxProcs, pc, ret, trials>>

\* a reduction that keeps the last worker's result
RECURSIVE parReduce_KeepsLast(_, _, _)
parReduce_KeepsLast(slots, k, best) ==
    IF k > Len(slots) THEN best
    ELSE parReduce_KeepsLast(slots, k + 1, [c |-> slots[k].c, w |-> slots[k].w])

\* for _, subr := range rs { if subr.w < w { w = subr.w; c = subr.c } }
RECURSIVE parReduce(_, _, _)
parReduce(slots, k, best) ==
    IF k > Len(slots) THEN best
    ELSE parReduce(slots, k + 1,
                   IF LessW(slots[k].w, best.w)
                   THEN [c |-> slots[k].c, w |-> slots[k].w] ELSE best)

\* wg.Wait() returns, the minima are combined, the driver returns
ParReduce ==
    /\ Running(0) /\ driver = "par"
    /\ Top(0).fn = "par" /\ Top(0).pc = "wait"
    /\ \A t \in DOMAIN tasks \ {0} : Depth(t) = 0
    /\ ret' = parReduce(rs, 1, [c |-> <<>>, w |-> Inf])
    /\ pc' = "done"
    /\ UNCHANGED <<libVars, g, driver, iter, arg, maxProcs, tasks, kas, indH, selH, rs, trials>>

\* ------------------------------------------------------ ParFastRandMinCut
\* k := newKargerRP(g); k.split = threads; if k.split == 0 { k.split = -1 }; k.init()
rpSplit(threads) == IF threads = 0 THEN -1 ELSE threads

RPStart ==
    /\ pc = "init" /\ driver = "rp"
    /\ LET id == <<0, 0>> IN
       /\ kas' = (id :> [newKarger(id) EXCEPT !.order = Order(g), !.split = rpSplit(arg)])
       /\ indH' = (id :> initInd(g, newInd(g)))
       /\ selH' = (id :> initSel(g, newSel(g)))
       /\ tasks' = (0 :> [stack |-> <<[Frame("loop", "loop", id) EXCEPT !.n = iter, !.w = Inf]>>,
                          n |-> 1])
    /\ pc' = "run"
    /\ UNCHANGED <<libVars, g, driver, iter, arg, maxProcs, ret, rs, trials>>

\* whether a call of kargerRP.fastRandMinCut runs its two halves concurrently
rpConcurrent(K) == K.count < K.split

\* kargerRP.fastRandMinCut up to the loop over sub, and, when the halves run
\* concurrently, the start of the two goroutines
EnterRP(t) ==
    /\ Running(t) /\ driver = "rp"
    /\ Top(t).fn = "frmc" /\ Top(t).pc = "entry"
    /\ LET f == Top(t)
           K == kas[f.ka]
           K1 == [K EXCEPT !.count = @ + 1]
           id == <<t, tasks[t].n>>
           tt == ContractTarget(K.order)
           f1 == [f EXCEPT !.sub1 = id, !.i = 0, !.t = tt, !.cnt = K.count,
                           !.wg = rpConcurrent(K),
                           !.pc = IF rpConcurrent(K) THEN "wait" ELSE "contract"]
           ts1 == [WithTop(tasks, t, f1) EXCEPT ![t].n = @ + 1]
       IN IF K.order <= SmallOrder
          THEN /\ tasks' = WithTop(tasks, t, [f EXCEPT !.pc = "compact"])
               /\ UNCHANGED <<kas, indH, selH>>
          ELSE /\ kas' = [kas EXCEPT ![f.ka] = K1] @@ (id :> cloneRP(K1, id))
               /\ indH' = indH @@ (id :> cloneInd(indH[K.ind]))
               /\ selH' = selH @@ (id :> cloneSel(selH[K.sel]))
               /\ tasks' = IF rpConcurrent(K)
                           THEN ts1 @@ ((2 * t + 1) :>
                                           [stack |-> <<[Frame("go", "contract", f.ka)
                                                           EXCEPT !.t = tt]>>, n |-> 0])
                                    @@ ((2 * t + 2) :>
                                           [stack |-> <<[Frame("go", "contract", id)
                                                           EXCEPT !.t = tt]>>, n |-> 0])
                           ELSE ts1
    /\ UNCHANGED <<libVars, g, driver, iter, arg, maxProcs, pc, ret, rs, trials>>

\* a goroutine of the recursion tree ends: wg.Done()
GoDone(t) ==
    /\ Running(t)
    /\ Top(t).fn = "go" /\ Top(t).pc = "ret"
    /\ tasks' = [tasks EXCEPT ![t].stack = <<>>]
    /\ UNCHANGED <<libVars, g, driver, iter, arg, maxProcs, kas, indH, selH, pc, ret, rs, trials>>

\* wg.Wait() returns and the better half is adopted
Join(t) ==
    /\ Running(t)
    /\ Top(t).fn = "frmc" /\ Top(t).pc = "wait"
    /\ \A u \in {2 * t + 1, 2 * t + 2} : u \in DOMAIN tasks /\ Depth(u) = 0
    /\ tasks' = Restrict(Return(tasks, t), DOMAIN tasks \ {2 * t + 1, 2 * t + 2})
    /\ kas' = LiveKas(adopt(kas, Top(t)), tasks')
    /\ indH' = LiveInd(indH, kas')
    /\ selH' = LiveSel(selH, kas')
    /\ UNCHANGED <<libVars, g, driver, iter, arg, maxProcs, pc, ret, rs, trials>>

\* ----------------------------------------------------- a Selector on its own
\* the Selector a caller fills in before Init: item k has Index 10 + k
Items(ws) == [k \in DOMAIN ws |-> [Index |-> 10 + k, Weight |-> ws[k], total |-> 0]]
Weights == {0, LightWeight, HeavyWeight}
Selectors == UNION {{Items(ws) : ws \in [1 .. n -> Weights]} : n \in 1 .. MaxLen}

NoCall == [op |-> "none"]
NoSelector == selector = <<>> /\ call = NoCall /\ picked = {}

\* s.Init()
SelInit ==
    /\ Len(selector) > 0
    /\ selector' = SelectorInit(selector)
    /\ call' = [op |-> "Init", before |-> selector]
    /\ picked' = {}
    /\ UNCHANGED <<cutVars, graphVars, searchVars>>

\* s.Select() with the draw r
SelSelect ==
    /\ Len(selector) > 0
    /\ \E r \in Draws(selector) :
          LET res == Select(selector, r) IN
          /\ selector' = res.s
          /\ call' = [op |-> "Select", r |-> r, st |-> res.st, index |-> res.index,
                      before |-> selector, picked |-> picked]
          /\ picked' = IF res.st = "ok" THEN picked \cup {res.index} ELSE picked
    /\ UNCHANGED <<cutVars, graphVars, searchVars>>

\* s.Weight(i, w)
SelWeight ==
    /\ Len(selector) > 0
    /\ \E i \in 0 .. (Len(selector) - 1), w \in Weights :
          /\ selector' = SelectorWeight(selector, i, w)
          /\ call' = [op |-> "Weight", i |-> i, w |-> w, before |-> selector]
    /\ picked' = {}
    /\ UNCHANGED <<cutVars, graphVars, searchVars>>

\* ------------------------------------------------- a graph under mutation
\* An Undirected as a heap: nodes and edges are tables of node and edge
\* structs by id, compNodes and compEdges are the compact arrays (of ids; the
\* struct's field i is its position there, counted from 0), and a node's
\* edges is its incidence list (of edge ids).  A struct stays in its table
\* after it left the graph, as the Go object stays with whoever holds it.
NilNode == -1
NewUndirected ==
    [nodes |-> NoTasks, compNodes |-> <<>>, edges |-> NoTasks, compEdges |-> <<>>,
     nextEdgeID |-> 0]
LiveNodes(G) == {G.compNodes[k] : k \in DOMAIN G.compNodes}
LiveEdges(G) == {G.compEdges[k] : k \in DOMAIN G.compEdges}
With(f, x, v) == [y \in DOMAIN f \cup {x} |-> IF y = x THEN v ELSE f[y]]
SwapWithLast(a, k) == [a EXCEPT ![k] = a[Len(a)], ![Len(a)] = a[k]]
DropLast(a) == SubSeq(a, 1, Len(a) - 1)

\* node.add
nodeAdd(G, n, e) == [G EXCEPT !.nodes[n].edges = Append(@, e)]

\* Edges.delFromNode(i), i counted from 0
delFromNode(list, i) == DropLast(SwapWithLast(list, i + 1))

\* node.drop: the first occurrence of e leaves the incidence list
nodeDrop(G, n, e) ==
    LET list == G.nodes[n].edges
        at == {k \in DOMAIN list : list[k] = e}
    IN IF at = {} THEN G
       ELSE LET k == CHOOSE x \in at : \A y \in at : x <= y
            IN [G EXCEPT !.nodes[n].edges = delFromNode(list, k - 1)]

\* edge.disconnect(n)
edgeDisconnect(G, e, n) ==
    IF G.edges[e].u = n
    THEN [nodeDrop(G, n, e) EXCEPT !.edges[e].u = NilNode]
    ELSE IF G.edges[e].v = n
    THEN [nodeDrop(G, n, e) EXCEPT !.edges[e].v = NilNode]
    ELSE G

\* edge.connect(n): err is alreadyConnected
edgeConnect(G, e, n) ==
    IF G.edges[e].u = NilNode
    THEN [err |-> FALSE, g |-> nodeAdd([G EXCEPT !.edges[e].u = n], n, e)]
    ELSE IF G.edges[e].v = NilNode
    THEN [err |-> FALSE, g |-> nodeAdd([G EXCEPT !.edges[e].v = n], n, e)]
    ELSE [err |-> TRUE, g |-> G]

\* a removal that leaves the moved edge's index as it was
EdgesDelFromGraph_StaleIndex(G, i) ==
    LET a == SwapWithLast(G.compEdges, i + 1)
    IN [G EXCEPT !.edges[a[Len(a)]].i = -1, !.compEdges = DropLast(a)]

\* Edges.delFromGraph(i) on the compact edge array, i counted from 0
EdgesDelFromGraph(G, i) ==
    LET a == SwapWithLast(G.compEdges, i + 1)
        G1 == [G EXCEPT !.edges[a[i + 1]].i = i]
        G2 == [G1 EXCEPT !.edges[a[Len(a)]].i = -1]
    IN [G2 EXCEPT !.compEdges = DropLast(a)]

\* Nodes.delFromGraph(i) on the compact node array, i counted from 0
NodesDelFromGraph(G, i) ==
    LET a == SwapWithLast(G.compNodes, i + 1)
        G1 == [G EXCEPT !.nodes[a[i + 1]].i = i]
        G2 == [G1 EXCEPT !.nodes[a[Len(a)]].i = -1]
    IN [G2 EXCEPT !.compNodes = DropLast(a)]

\* Undirected.AddID: the node with this id, made and appended if absent
AddID(G, id) ==
    IF id \in LiveNodes(G) THEN G
    ELSE [G EXCEPT !.nodes = With(@, id, [id |-> id, i |-> Len(G.compNodes), edges |-> <<>>]),
                   !.compNodes = Append(@, id)]

\* Undirected.newEdgeKeepID: a new edge struct with the given id, appended to
\* the compact edge array and added to the incidence lists of its endpoints,
\* once for a self-loop
newEdgeKeepID(G, id, u, v, w, f) ==
    LET G1 == [G EXCEPT !.edges = With(@, id, [id |-> id, i |-> Len(G.compEdges),
                                               u |-> u, v |-> v, weight |-> w, flags |-> f]),
                        !.compEdges = Append(@, id),
                        !.nextEdgeID = IF id >= @ THEN id + 1 ELSE @]
        G2 == nodeAdd(G1, u, id)
    IN IF v = u THEN G2 ELSE nodeAdd(G2, v, id)

\* the id a new edge gets: ids are never used twice
NextEdgeID(G) == G.nextEdgeID

\* Undirected.newEdge, Undirected.Connect
newEdge(G, u, v, w, f) == newEdgeKeepID(G, NextEdgeID(G), u, v, w, f)

\* Undirected.RemoveEdge: the edge leaves the compact array and its endpoints
RemoveEdge(G, e) ==
    LET G1 == EdgesDelFromGraph(G, G.edges[e].i)
        G2 == IF G1.edges[e].u # NilNode THEN edgeDisconnect(G1, e, G1.edges[e].u) ELSE G1
    IN IF G2.edges[e].v # NilNode THEN edgeDisconnect(G2, e, G2.edges[e].v) ELSE G2

RECURSIVE RemoveEdges(_, _, _)
RemoveEdges(G, list, k) ==
    IF k > Len(list) THEN G
    ELSE RemoveEdges(IF list[k] \in LiveEdges(G) THEN RemoveEdge(G, list[k]) ELSE G, list, k + 1)

\* Undirected.RemoveNode: the node's edges leave the graph, then the node
\* leaves the compact array
RemoveNode(G, n) ==
    LET G1 == RemoveEdges(G, G.nodes[n].edges, 1)
        G2 == NodesDelFromGraph(G1, G1.nodes[n].i)
    IN [G2 EXCEPT !.nodes[n].edges = <<>>]

\* the structs that left the graph are garbage once the caller lets go of
\* them, unless a struct of the graph still points to them
RECURSIVE Referenced(_, _, _)
Referenced(G, ns, es) ==
    LET ns2 == ns \cup (UNION {{G.edges[e].u, G.edges[e].v} : e \in es} \cap DOMAIN G.nodes)
        es2 == es \cup (UNION {{G.nodes[n].edges[k] : k \in DOMAIN G.nodes[n].edges} : n \in ns2}
                          \cap DOMAIN G.edges)
    IN IF ns2 = ns /\ es2 = es THEN [nodes |-> ns, edges |-> es] ELSE Referenced(G, ns2, es2)
Collect(G) ==
    LET keep == Referenced(G, LiveNodes(G), LiveEdges(G))
    IN [G EXCEPT !.nodes = Restrict(@, keep.nodes), !.edges = Restrict(@, keep.edges)]

\* Nodes.BuildUndirected over the node list ns of G, from node k and edge j of
\* its incidence list on, into the new graph H; err is NodeIDOutOfRange
RECURSIVE buildFrom(_, _, _, _, _, _, _)
buildFrom(G, ns, compact, k, j, seen, H) ==
    IF k > Len(ns) THEN [err |-> FALSE, g |-> H]
    ELSE LET n == ns[k]
             H0 == IF j = 1 THEN AddID(H, n) ELSE H
             list == G.nodes[n].edges
         IN IF j > Len(list) THEN buildFrom(G, ns, compact, k + 1, 1, seen, H0)
            ELSE LET e == G.edges[list[j]] IN
                 IF list[j] \in seen THEN buildFrom(G, ns, compact, k, j + 1, seen, H0)
                 ELSE IF e.u < 0 \/ e.v < 0 THEN [err |-> TRUE, g |-> NewUndirected]
                 ELSE LET H1 == AddID(AddID(H0, e.u), e.v)
                          id == IF compact THEN NextEdgeID(H1) ELSE e.id
                          H2 == newEdgeKeepID(H1, id, e.u, e.v, e.weight, e.flags)
                          H3 == nodeAdd(H2, e.u, id)
                          H4 == IF e.v # e.u THEN nodeAdd(H3, e.v, id) ELSE H3
                      IN buildFrom(G, ns, compact, k, j + 1, seen \cup {list[j]}, H4)

BuildUndirected(G, ns, compact) == buildFrom(G, ns, compact, 1, 1, {}, NewUndirected)

NoGraph == ug = NewUndirected /\ gcall = NoCall /\ built = NewUndirected

\* what the edge with this id is made with: weight and flags
EdgeKind(id) == <<id + 1, id % 2>>

\* g.AddID(id)
GAddID ==
    /\ \E id \in 0 .. MaxNodeID :
          /\ id \in DOMAIN ug.nodes => id \in LiveNodes(ug)
          /\ ug' = AddID(ug, id)
          /\ gcall' = [op |-> "AddID", id |-> id]
    /\ built' = NewUndirected
    /\ UNCHANGED <<cutVars, selVars, searchVars>>

\* g.Connect(u, v, w, f)
GConnect ==
    /\ NextEdgeID(ug) <= MaxEdgeID
    /\ \E u \in LiveNodes(ug), v \in LiveNodes(ug) :
          /\ ug' = newEdge(ug, u, v, EdgeKind(NextEdgeID(ug))[1], EdgeKind(NextEdgeID(ug))[2])
          /\ gcall' = [op |-> "Connect", id |-> NextEdgeID(ug)]
    /\ built' = NewUndirected
    /\ UNCHANGED <<cutVars, selVars, searchVars>>

\* g.RemoveEdge(e)
GRemoveEdge ==
    /\ \E e \in LiveEdges(ug) :
          /\ gcall' = [op |-> "RemoveEdge", id |-> e, before |-> ug, after |-> RemoveEdge(ug, e)]
          /\ ug' = Collect(gcall'.after)
    /\ built' = NewUndirected
    /\ UNCHANGED <<cutVars, selVars, searchVars>>

\* g.RemoveNode(n)
GRemoveNode ==
    /\ \E n \in LiveNodes(ug) :
          /\ gcall' = [op |-> "RemoveNode", id |-> n, before |-> ug, after |-> RemoveNode(ug, n)]
          /\ ug' = Collect(gcall'.after)
    /\ built' = NewUndirected
    /\ UNCHANGED <<cutVars, selVars, searchVars>>

\* e.disconnect(n) on an endpoint of a live edge
GDisconnect ==
    /\ \E e \in LiveEdges(ug), n \in LiveNodes(ug) :
          /\ n \in {ug.edges[e].u, ug.edges[e].v}
          /\ ug' = edgeDisconnect(ug, e, n)
          /\ gcall' = [op |-> "disconnect", id |-> e, n |-> n]
    /\ built' = NewUndirected
    /\ UNCHANGED <<cutVars, selVars, searchVars>>

\* e.connect(n) on a live edge
GEdgeConnect ==
    /\ \E e \in LiveEdges(ug), n \in LiveNodes(ug) :
          LET res == edgeConnect(ug, e, n) IN
          /\ ug' = res.g
          /\ gcall' = [op |-> "connect", id |-> e, n |-> n, err |-> res.err]
    /\ built' = NewUndirected
    /\ UNCHANGED <<cutVars, selVars, searchVars>>

\* Nodes(g).BuildUndirected(compact)
GBuild ==
    /\ gcall.op # "Build"
    /\ \E compact \in BOOLEAN :
          LET res == BuildUndirected(ug, ug.compNodes, compact) IN
          /\ built' = res.g
          /\ gcall' = [op |-> "Build", compact |-> compact, err |-> res.err]
    /\ UNCHANGED <<ug, cutVars, selVars, searchVars>>

\* -------------------------------------------------------------- traversal
\* A []bool slice: n is its length, arr its backing array (whose length is
\* the capacity).
NoVisits == [n |-> 0, arr |-> <<>>]

\* mark(n, v) for the node with this id
mark(id, v) ==
    IF id = v.n
    THEN IF v.n < Len(v.arr)
         THEN [n |-> v.n + 1, arr |-> [v.arr EXCEPT ![id + 1] = TRUE]]
         ELSE [n |-> v.n + 1, arr |-> Append(SubSeq(v.arr, 1, v.n), TRUE)]
    ELSE IF id > v.n
    THEN [n |-> id + 1,
          arr |-> [k \in 1 .. (id + 1) |-> IF k <= v.n THEN v.arr[k] ELSE k = id + 1]]
    ELSE [v EXCEPT !.arr[id + 1] = TRUE]

\* Visited(n) for the node with this id
Visited(id, v) == IF id < 0 \/ id >= v.n THEN FALSE ELSE v.arr[id + 1]

\* the edge filters a caller passes: every edge, or the edges not flagged EdgeCut
EdgeCut == 1
Accepts(ef, e) == ef = "all" \/ e.flags % 2 # EdgeCut

\* node.Neighbors(ef): for each accepted edge of the incidence list, in
\* order, the other endpoint
RECURSIVE neighborsFrom(_, _, _, _)
neighborsFrom(G, n, ef, k) ==
    LET list == G.nodes[n].edges IN
    IF k > Len(list) THEN <<>>
    ELSE LET e == G.edges[list[k]]
             rest == neighborsFrom(G, n, ef, k + 1)
         IN IF Accepts(ef, e)
            THEN <<IF EdgeTail(e) = n THEN EdgeHead(e) ELSE EdgeTail(e)>> \o rest
            ELSE rest
Neighbors(G, n, ef) == neighborsFrom(G, n, ef, 1)

\* the loop over t.Neighbors(ef) of Search: S is the searcher
RECURSIVE visitAll(_, _, _)
visitAll(S, ns, k) ==
    IF k > Len(ns) THEN S
    ELSE visitAll(IF Visited(ns[k], S.visits) THEN S
                  ELSE [S EXCEPT !.visits = mark(ns[k], @), !.q = Append(@, ns[k])],
                  ns, k + 1)

\* a Reset that leaves the visited list as it is
searchReset_KeepsVisits(S) == [S EXCEPT !.q = <<>>]

\* Reset: the queue or stack is cleared, the visited list cut to length 0
searchReset(S) == [S EXCEPT !.q = <<>>, !.visits.n = 0]

\* the next node Search takes: the oldest of the queue (BreadthFirst), the
\* newest of the stack (DepthFirst)
Taken(S) == IF S.kind = "bfs" THEN 1 ELSE Len(S.q)
Without(q, k) == SubSeq(q, 1, k - 1) \o SubSeq(q, k + 1, Len(q))

\* the loop of Search, run to its return: nf is the set of node ids the node
\* filter accepts
RECURSIVE searchLoop(_, _, _, _)
searchLoop(S, G, ef, nf) ==
    IF Len(S.q) = 0 THEN [S |-> S, t |-> NilNode, err |-> TRUE]
    ELSE LET k == Taken(S)
             t == S.q[k]
             S1 == [S EXCEPT !.q = Without(@, k)]
         IN IF t \in nf THEN [S |-> S1, t |-> t, err |-> FALSE]
            ELSE searchLoop(visitAll(S1, Neighbors(G, t, ef), 1), G, ef, nf)

\* Search(s, ef, nf)
Search(S, G, s, ef, nf) ==
    searchLoop([S EXCEPT !.q = Append(@, s), !.visits = mark(s, @)], G, ef, nf)

\* NewBreadthFirst, NewDepthFirst; "use" records whether the searcher is
\* fresh, reset or used
NewSearcher(kind) == [kind |-> kind, q |-> <<>>, visits |-> NoVisits, use |-> "fresh"]
NoSearch == searcher = NewSearcher("none") /\ search = NoCall

\* the graphs searched: nodes added in this order, then edges <<u, v, flags>>
RECURSIVE MakeGraph(_, _, _)
MakeGraph(G, ids, es) ==
    IF Len(ids) > 0 THEN MakeGraph(AddID(G, Head(ids)), Tail(ids), es)
    ELSE IF Len(es) > 0
    THEN MakeGraph(newEdge(G, es[1][1], es[1][2], 1, es[1][3]), ids, Tail(es))
    ELSE G
SearchGraphs ==
    {MakeGraph(NewUndirected, <<0, 1, 2, 3>>,
               <<(<<0, 2, 0>>), (<<0, 1, 0>>), (<<1, 3, 0>>), (<<3, 3, 0>>), (<<1, 2, 1>>)>>),
     MakeGraph(NewUndirected, <<4, 1, 2>>,
               <<(<<4, 1, 1>>), (<<1, 2, 0>>), (<<1, 2, 0>>)>>)}
EdgeFilters == {"all", "uncut"}

\* searcher.Search(s, ef, nf) on a node s of the graph
SSearch ==
    /\ searcher.kind # "none"
    /\ \E s \in LiveNodes(ug), ef \in EdgeFilters, nf \in SUBSET LiveNodes(ug) :
          LET res == Search(searcher, ug, s, ef, nf) IN
          /\ searcher' = [res.S EXCEPT !.use = "used"]
          /\ search' = [op |-> "Search", s |-> s, ef |-> ef, nf |-> nf, t |-> res.t,
                        err |-> res.err, on |-> searcher.use]
    /\ UNCHANGED <<cutVars, selVars, graphVars>>

\* searcher.Reset()
SReset ==
    /\ searcher.kind # "none"
    /\ searcher' = [searchReset(searcher) EXCEPT !.use = IF @ = "fresh" THEN @ ELSE "reset"]
    /\ search' = [op |-> "Reset"]
    /\ UNCHANGED <<cutVars, selVars, graphVars>>

\* ------------------------------------------------------------ specification
\* nothing but the min-cut drivers is in use
NoLib == NoSelector /\ NoGraph /\ NoSearch
\* the min-cut drivers are not in use
NoCut == driver = "none" /\ g = GEmpty /\ iter = 0 /\ arg = 0 /\ maxProcs = 1
         /\ tasks = NoTasks /\ kas = NoTasks /\ indH = NoTasks /\ selH = NoTasks
         /\ pc = "init" /\ ret = [c |-> <<>>, w |-> 0] /\ rs = <<>> /\ trials = {}

InitFor(drivers, graphs, iters, args, procs) ==
    /\ driver \in drivers
    /\ g \in graphs
    /\ iter \in iters
    /\ arg \in args
    /\ maxProcs \in procs
    /\ tasks = NoTasks
    /\ kas = NoTasks
    /\ indH = NoTasks
    /\ selH = NoTasks
    /\ pc = "init"
    /\ ret = [c |-> <<>>, w |-> 0]
    /\ rs = <<>>
    /\ trials = {}

\* FastRandMinCut
InitSeq == InitFor({"seq"}, SeqGraphs, 0 .. MaxIter, {0}, {1}) /\ NoLib

\* what a goroutine running kargerR code can do
StepR(t) ==
    \/ LoopCall(t)
    \/ LoopTake(t)
    \/ EnterR(t)
    \/ CompactIter(t)
    \/ CompactCut(t)
    \/ ContractIter(t)
    \/ Recurse(t)
    \/ NextSub(t)
    \/ Adopt(t)

NextSeq ==
    \/ SeqStart
    \/ DriverReturn
    \/ StepR(0)

SpecSeq == InitSeq /\ [][NextSeq]_vars

\* FastRandMinCutPar
InitPar ==
    InitFor({"par"}, ParGraphs, 0 .. MaxParIter, 0 .. MaxThread, 1 .. MaxProcsBound) /\ NoLib

NextPar ==
    \/ ParStart
    \/ ParReduce
    \/ \E t \in DOMAIN tasks \ {0} :
          \/ WorkerStart(t)
          \/ WorkerDone(t)
          \/ StepR(t)

SpecPar == InitPar /\ [][NextPar]_vars

\* ParFastRandMinCut
InitRP == InitFor({"rp"}, RPGraphs, 0 .. MaxIter, 0 .. MaxSplit, {1}) /\ NoLib

\* what a goroutine running kargerRP code can do
StepRP(t) ==
    \/ LoopCall(t)
    \/ LoopTake(t)
    \/ EnterRP(t)
    \/ CompactIter(t)
    \/ CompactCut(t)
    \/ ContractIter(t)
    \/ Recurse(t)
    \/ NextSub(t)
    \/ Adopt(t)
    \/ GoDone(t)
    \/ Join(t)

NextRP ==
    \/ RPStart
    \/ DriverReturn
    \/ \E t \in DOMAIN tasks : StepRP(t)

SpecRP == InitRP /\ [][NextRP]_vars

\* a Selector: filled in by its caller, Init called, then any calls
InitSelector ==
    /\ NoCut
    /\ selector \in {SelectorInit(s) : s \in Selectors}
    /\ call = [op |-> "Init", before |-> selector]
    /\ picked = {}
    /\ NoGraph /\ NoSearch

NextSelector ==
    \/ SelInit
    \/ SelSelect
    \/ SelWeight

SpecSelector == InitSelector /\ [][NextSelector]_vars

\* a graph built and changed through its methods
InitGraph == NoCut /\ NoSelector /\ NoGraph /\ NoSearch

NextGraph ==
    \/ GAddID
    \/ GConnect
    \/ GRemoveEdge
    \/ GRemoveNode
    \/ GBuild

SpecGraph == InitGraph /\ [][NextGraph]_vars

\* the same with the edges' own disconnect and connect
NextGraphEdges ==
    \/ GAddID
    \/ GConnect
    \/ GRemoveEdge
    \/ GRemoveNode
    \/ GDisconnect
    \/ GEdgeConnect

SpecGraphEdges == InitGraph /\ [][NextGraphEdges]_vars

\* the three drivers together
\* a searcher on a graph
InitSearch ==
    /\ NoCut /\ NoSelector
    /\ ug \in SearchGraphs /\ gcall = NoCall /\ built = NewUndirected
    /\ searcher \in {NewSearcher(k) : k \in {"bfs", "dfs"}}
    /\ search = NoCall

NextSearch ==
    \/ SSearch
    \/ SReset

SpecSearch == InitSearch /\ [][NextSearch]_vars

Init == InitSeq \/ InitPar \/ InitRP

Next ==
    \/ SeqStart
    \/ ParStart
    \/ RPStart
    \/ DriverReturn
    \/ ParReduce
    \/ \E t \in DOMAIN tasks :
          \/ WorkerStart(t)
          \/ WorkerDone(t)
          \/ EnterR(t)
          \/ StepRP(t)

Spec == Init /\ [][Next]_vars

\* ------------------------------------------------------------------ claims
NodeSet(G) == {G.nodes[i] : i \in DOMAIN G.nodes}
EdgeSet(G) == {G.edges[i] : i \in DOMAIN G.edges}
SeqRange(q) == {q[i] : i \in DOMAIN q}

\* the edges of G left when the edges named by cut are removed
Kept(G, cut) == {e \in EdgeSet(G) : e.id \notin SeqRange(cut)}

\* the nodes reachable from S along the edges es
RECURSIVE Reach(_, _)
Reach(es, S) ==
    LET S1 == S \cup {e.u : e \in {x \in es : x.v \in S}}
                \cup {e.v : e \in {x \in es : x.u \in S}}
    IN IF S1 = S THEN S ELSE Reach(es, S1)

\* the number of connected components of G without the edges of cut
NumComponents(G, cut) == Cardinality({Reach(Kept(G, cut), {n}) : n \in NodeSet(G)})

RECURSIVE CutWeight(_, _, _)
CutWeight(G, cut, k) ==
    IF k > Len(cut) THEN 0 ELSE Edge(G, cut[k]).weight + CutWeight(G, cut, k + 1)

\* the ids of the edges of G whose endpoints carry different labels, in edge order
CrossEdges(G, ind) ==
    LET es == SelectSeq(G.edges, LAMBDA e : ind[e.u].label # ind[e.v].label)
    IN [i \in DOMAIN es |-> es[i].id]

\* C1 as stated: for every graph and every iter >= 1, removing the edges
\* FastRandMinCut returns leaves at least two connected components.
C1_Original ==
    (pc = "done" /\ driver = "seq" /\ iter >= 1) => NumComponents(g, ret.c) >= 2

\* C1 amended: for every graph with at least two nodes and every iter >= 1,
\* removing the edges FastRandMinCut returns leaves at least two connected
\* components.
C1_CutDisconnects ==
    (pc = "done" /\ driver = "seq" /\ iter >= 1 /\ Order(g) >= 2)
        => NumComponents(g, ret.c) >= 2

\* FastRandMinCut has returned a non-empty cut of a connected graph of more than
\* six nodes
C1_Witness ==
    /\ pc = "done" /\ driver = "seq" /\ iter >= 1
    /\ Order(g) > SmallOrder /\ NumComponents(g, <<>>) = 1
    /\ Len(ret.c) >= 1

\* C2 as stated: for every iteration count, the weight a driver returns is the
\* sum of the weights of the edges it returns.
C2_Original == pc = "done" => ret.w = CutWeight(g, ret.c, 1)

\* C2 amended: for every iteration count iter >= 1, the weight a driver returns
\* is the sum of the weights of the edges it returns.
C2_WeightIsSum == (pc = "done" /\ iter >= 1) => ret.w = CutWeight(g, ret.c, 1)

\* ParFastRandMinCut has returned a cut of two edges or more with positive weight
C2_Witness == pc = "done" /\ driver = "rp" /\ Len(ret.c) >= 2 /\ ret.w >= 2

\* the context is as init leaves it: order is the graph's, every node is its
\* own label, no member list, every edge in the selector with its full weight
FreshContext(id) ==
    LET K == kas[id]
        ind == indH[K.ind]
        sel == selH[K.sel]
    IN /\ K.order = Order(g)
       /\ \A n \in NodeSet(g) : ind[n].label = n
       /\ \A i \in DOMAIN ind : ind[i].nodes = <<>>
       /\ \A i \in DOMAIN sel :
             sel[i].Index = g.edges[i].id /\ sel[i].Weight = g.edges[i].weight

\* C3: every iteration of FastRandMinCut's loop starts its call of
\* fastRandMinCut on a re-initialized context.
C3_FreshEachIteration ==
    driver = "seq" =>
        \A t \in DOMAIN tasks :
            (Depth(t) = 2 /\ Top(t).pc = "entry" /\ tasks[t].stack[1].fn = "loop")
                => FreshContext(Top(t).ka)

\* C4: FastRandMinCut comes to an end when the selector empties before the
\* contraction target is reached, at any order: the recursion of
\* fastRandMinCut never exhausts the stack.
C4_SelectorEmptyHalts == driver = "seq" => pc # "overflow"

\* C5 as stated: what FastRandMinCut and FastRandMinCutPar return is the cut and
\* weight of one of the trials run, and no trial weighed less.
C5_Original ==
    (pc = "done" /\ driver \in {"seq", "par"})
        => /\ ret \in trials
           /\ \A x \in trials : ~LessW(x.w, ret.w)

\* C5 amended: when iter >= 1, what FastRandMinCut and FastRandMinCutPar return
\* is the cut and weight of one of the trials run, and no trial weighed less.
C5_MinOfTrials ==
    (pc = "done" /\ driver \in {"seq", "par"} /\ iter >= 1)
        => /\ ret \in trials
           /\ \A x \in trials : ~LessW(x.w, ret.w)

\* FastRandMinCutPar has returned after a trial that weighed more than its result
C5_Witness ==
    pc = "done" /\ driver = "par" /\ \E x \in trials : LessW(ret.w, x.w)

\* C6: no step of any driver changes the graph.
C6_GraphUnchanged == [][g' = g]_vars

\* a context of ParFastRandMinCut, and one of a FastRandMinCutPar worker, has
\* merged supernodes
C6_Witness ==
    /\ driver \in {"rp", "par"}
    /\ \E id \in DOMAIN kas : kas[id].order < Order(g) /\ kas[id].order >= 2

\* the goroutines of the recursion tree that are computing (not waiting for
\* their own children)
ActiveGo ==
    {t \in DOMAIN tasks :
        Depth(t) > 0 /\ tasks[t].stack[1].fn = "go" /\ Top(t).pc # "wait"}

\* everything a goroutine's contexts hold: order, labels and member lists,
\* selector items
View(t) ==
    LET ids == LiveIds(Restrict(tasks, {t})) IN
    [id \in ids |-> [order |-> kas[id].order,
                     ind |-> indH[kas[id].ind],
                     sel |-> selH[kas[id].sel]]]

\* C7: no step changes what two concurrently computing goroutines of the
\* recursion tree hold: the step of one leaves the order, label array, member
\* lists and selector of every other as they were.
C7_Isolated ==
    [][\A t \in ActiveGo \cap ActiveGo' : \A u \in ActiveGo \cap ActiveGo' :
          t # u => (View(t)' = View(t) \/ View(u)' = View(u))]_vars

\* the two goroutines of one call have both contracted, to different states
C7_Witness ==
    /\ {1, 2} \subseteq ActiveGo
    /\ kas[tasks[1].stack[1].ka].order < Order(g)
    /\ kas[tasks[2].stack[1].ka].order < Order(g)
    /\ View(1)[tasks[1].stack[1].ka] # View(2)[tasks[2].stack[1].ka]

Workers == DOMAIN tasks \ {0}
Min3(a, b, c) == Min2(a, Min2(b, c))
AllAlive == \A t \in Workers : Depth(t) > 0
Share(t) == tasks[t].stack[1].n
RECURSIVE SumShares(_)
SumShares(S) ==
    IF S = {} THEN 0
    ELSE LET t == CHOOSE x \in S : TRUE IN Share(t) + SumShares(S \ {t})

\* C8: with iter >= 1 and thread >= 1, FastRandMinCutPar starts
\* min(thread, MaxProcs, iter) workers, their iteration counts add up to iter
\* and differ by at most one, and no two workers share a context or its arrays.
C8_Partition ==
    (driver = "par" /\ pc \in {"run", "done"} /\ iter >= 1 /\ arg >= 1) =>
        /\ Cardinality(Workers) = Min3(arg, maxProcs, iter)
        /\ AllAlive =>
              /\ SumShares(Workers) = iter
              /\ \A t \in Workers : \A u \in Workers : Share(t) - Share(u) <= 1
        /\ \A t \in Workers : \A u \in Workers :
              (t # u /\ Depth(t) > 0 /\ Depth(u) > 0
                 /\ Top(t).ka # Nil /\ Top(u).ka # Nil) =>
                  /\ Top(t).ka # Top(u).ka
                  /\ kas[Top(t).ka].ind # kas[Top(u).ka].ind
                  /\ kas[Top(t).ka].sel # kas[Top(u).ka].sel

\* two workers with different iteration counts are running, each on its context
C8_Witness ==
    /\ driver = "par" /\ pc = "run" /\ AllAlive
    /\ \E t \in Workers : \E u \in Workers :
          /\ Share(t) > Share(u)
          /\ Top(t).ka # Nil /\ Top(u).ka # Nil

\* C9: in ParFastRandMinCut a call of fastRandMinCut with order > 6 runs its two
\* halves concurrently exactly when the budget is 0 (unlimited) or the
\* context's counter is below the budget.
C9_SplitBudget ==
    driver = "rp" =>
        \A t \in DOMAIN tasks : \A k \in DOMAIN tasks[t].stack :
            LET f == tasks[t].stack[k] IN
            (f.fn = "frmc" /\ f.sub1 # Nil) => (f.wg <=> (arg = 0 \/ f.cnt < arg))

\* C10: when a call of fastRandMinCut returns, the context's cut is exactly the
\* edges of g whose endpoints carry different labels, and no self-loop of g is
\* in a cut a driver returns.
C10_CutIsCrossEdges ==
    /\ \A t \in DOMAIN tasks :
          (Depth(t) > 0 /\ Top(t).pc = "ret") =>
              LET K == kas[Cur(Top(t))] IN K.c = CrossEdges(g, indH[K.ind])
    /\ pc = "done" =>
          \A k \in DOMAIN ret.c : Edge(g, ret.c[k]).u # Edge(g, ret.c[k]).v

\* a driver has returned a non-empty cut of a graph that has a self-loop
C10_Witness ==
    /\ pc = "done" /\ Len(ret.c) >= 1
    /\ \E e \in EdgeSet(g) : e.u = e.v

\* ------------------------------------------------------- claims: Selector
TotalAt(s, i) == IF i \in DOMAIN s THEN s[i].total ELSE 0
RECURSIVE SumWeights(_, _)
SumWeights(s, k) == IF k = 0 THEN 0 ELSE s[k].Weight + SumWeights(s, k - 1)
Selected == call.op = "Select" /\ call.st = "ok"
\* the position of the item Select returned
Chosen == CHOOSE i \in DOMAIN call.before : call.before[i].Index = call.index

\* C11: after Init and any calls of Select and Weight, every position's total
\* is its own weight plus the totals of its two children (a missing child
\* counts 0), and the root total is the sum of all the weights.
C11_TotalsAreSums ==
    /\ \A i \in DOMAIN selector :
          selector[i].total
            = selector[i].Weight + TotalAt(selector, 2 * i) + TotalAt(selector, 2 * i + 1)
    /\ Len(selector) > 0 => selector[1].total = SumWeights(selector, Len(selector))

\* C12: selection is without replacement: a successful Select returns an item
\* whose weight was positive just before the call, so not one that a Select
\* since the last Init or Weight already returned, for every draw.
C12_WithoutReplacement ==
    Selected => /\ call.before[Chosen].Weight > 0
                /\ call.index \notin call.picked

\* C13: a successful Select sets the chosen item's Weight to 0, leaves every
\* other Weight and every Index as they were, and takes exactly the chosen
\* item's former weight off the root total.
C13_SelectFrame ==
    Selected =>
        /\ Len(selector) = Len(call.before)
        /\ selector[Chosen].Weight = 0
        /\ \A i \in DOMAIN selector :
              /\ i # Chosen => selector[i].Weight = call.before[i].Weight
              /\ selector[i].Index = call.before[i].Index
        /\ selector[1].total = call.before[1].total - call.before[Chosen].Weight

\* C14: Select fails with SelectorEmpty exactly when the root total is zero,
\* and then changes nothing; when the root total is positive every draw of
\* [0, total) ends at an item and Select returns its Index with no error.
C14_EmptyIffZeroTotal ==
    call.op = "Select" =>
        /\ call.st = "empty" <=> call.before[1].total = 0
        /\ call.st = "empty" => selector = call.before
        /\ call.before[1].total > 0 => call.st = "ok"

\* the draws strictly between two half-unit boundaries of [0, total): one for
\* each unit interval of the range
OpenDraws(s) == {r \in Draws(s) : r % 2 = 1}
DrawsEndingAt(s, i) == {r \in OpenDraws(s) : Descend(s, r, 1) = i}
FineGrid(s) == 2 * s[1].total <= 2 ^ MantissaBits

\* C15: Select chooses item i with probability exactly Weight[i] / total: of
\* the draws of [0, total), the portion whose descent ends at i is
\* Weight[i] / total, for every item and every tree shape.
C15_ExactProbability ==
    (Len(selector) > 0 /\ selector[1].total > 0 /\ FineGrid(selector)) =>
        \A i \in DOMAIN selector :
            Cardinality(DrawsEndingAt(selector, i)) * selector[1].total
              = selector[i].Weight * Cardinality(OpenDraws(selector))

\* --------------------------------------------------------- claims: graph
\* every element of a compact array is there once and its struct's index is
\* its position
Compact(arr, table) ==
    /\ \A k \in DOMAIN arr : arr[k] \in DOMAIN table /\ table[arr[k]].i = k - 1
    /\ \A k, l \in DOMAIN arr : arr[k] = arr[l] => k = l
\* removing x took it out of arr by swap-with-last: x has index -1, the last
\* element has x's old index, every other element its old index
SwappedOut(x, arrB, tableB, arrA, tableA) ==
    /\ tableA[x].i = -1
    /\ Len(arrA) = Len(arrB) - 1
    /\ \A k \in DOMAIN arrB :
          arrB[k] # x =>
             tableA[arrB[k]].i = IF k = Len(arrB) THEN tableB[x].i ELSE tableB[arrB[k]].i

\* C16: after any additions and removals the compact node and edge arrays
\* hold each element once with its index equal to its position; an element
\* removed by swap-with-last has index -1, the element moved into its slot
\* has the vacated index, and every other element keeps its index.
C16_CompactIndices ==
    /\ Compact(ug.compNodes, ug.nodes) /\ Compact(ug.compEdges, ug.edges)
    /\ gcall.op = "RemoveEdge" =>
          SwappedOut(gcall.id, gcall.before.compEdges, gcall.before.edges,
                     gcall.after.compEdges, gcall.after.edges)
    /\ gcall.op = "RemoveNode" =>
          /\ SwappedOut(gcall.id, gcall.before.compNodes, gcall.before.nodes,
                        gcall.after.compNodes, gcall.after.nodes)
          /\ \A e \in LiveEdges(gcall.before) \ LiveEdges(gcall.after) :
                gcall.after.edges[e].i = -1

\* the first of three nodes was removed, and with it the first of two edges
C16_Witness ==
    /\ gcall.op = "RemoveNode"
    /\ Len(gcall.before.compNodes) = 3 /\ gcall.before.nodes[gcall.id].i = 0
    /\ Len(gcall.before.compEdges) = 2 /\ Len(ug.compEdges) = 1
    /\ gcall.before.compEdges[1] \notin LiveEdges(ug)

Occurrences(list, e) == Cardinality({k \in DOMAIN list : list[k] = e})

Bound(G, e) == G.edges[e].u # NilNode /\ G.edges[e].v # NilNode

\* C17: after any mutations every live edge with its two endpoints bound is
\* once in the incidence list of each endpoint (once in all for a
\* self-loop), and an incidence list holds only live edges incident on its
\* node.
C17_IncidenceLists ==
    /\ \A e \in LiveEdges(ug) :
          Bound(ug, e) =>
             \A n \in {ug.edges[e].u, ug.edges[e].v} :
                n \in DOMAIN ug.nodes /\ Occurrences(ug.nodes[n].edges, e) = 1
    /\ \A n \in LiveNodes(ug) : \A k \in DOMAIN ug.nodes[n].edges :
          LET e == ug.nodes[n].edges[k] IN
          e \in LiveEdges(ug) /\ n \in {ug.edges[e].u, ug.edges[e].v}

\* C18: Nodes(g).BuildUndirected(false) returns a graph with the node ids of
\* g, the edge ids of g with the same endpoints, weights and flags, and for
\* every node the same incident edges as often as in g.
C18_RoundTrip ==
    (gcall.op = "Build" /\ ~gcall.compact) =>
        /\ ~gcall.err
        /\ LiveNodes(built) = LiveNodes(ug)
        /\ LiveEdges(built) = LiveEdges(ug)
        /\ \A e \in LiveEdges(ug) :
              /\ built.edges[e].u = ug.edges[e].u /\ built.edges[e].v = ug.edges[e].v
              /\ built.edges[e].weight = ug.edges[e].weight
              /\ built.edges[e].flags = ug.edges[e].flags
        /\ \A n \in LiveNodes(ug) : \A e \in LiveEdges(ug) :
              Occurrences(built.nodes[n].edges, e) = Occurrences(ug.nodes[n].edges, e)

\* --------------------------------------------------------- claims: traversal
\* the nodes one accepted edge away from n
Adjacent(G, n, ef) ==
    {m \in LiveNodes(G) : \E e \in LiveEdges(G) :
        Accepts(ef, G.edges[e]) /\ {G.edges[e].u, G.edges[e].v} = {n, m}}
\* the nodes at most d accepted edges away from s
RECURSIVE WithinHops(_, _, _, _)
WithinHops(G, s, ef, d) ==
    IF d = 0 THEN {s}
    ELSE LET W == WithinHops(G, s, ef, d - 1)
         IN W \cup UNION {Adjacent(G, n, ef) : n \in W}
Reachable(G, s, ef) == WithinHops(G, s, ef, Cardinality(LiveNodes(G)))
HopDistance(G, s, ef, x) ==
    CHOOSE d \in 0 .. Cardinality(LiveNodes(G)) :
        /\ x \in WithinHops(G, s, ef, d)
        /\ d > 0 => x \notin WithinHops(G, s, ef, d - 1)
\* the nodes a search may return
Targets == Reachable(ug, search.s, search.ef) \cap search.nf

\* C19: a Search on a fresh searcher, or on one reset after earlier searches,
\* returns a node the node filter accepts that is reachable from s through
\* edges the edge filter accepts (s included) whenever there is one, and fails
\* with target-not-found exactly when there is none; the node a breadth-first
\* search returns is at minimum hop distance from s among the accepted ones.
C19_SearchCorrect ==
    (search.op = "Search" /\ search.on \in {"fresh", "reset"}) =>
        /\ search.err <=> Targets = {}
        /\ ~search.err => search.t \in Targets
        /\ (~search.err /\ searcher.kind = "bfs") =>
              \A x \in Targets :
                 HopDistance(ug, search.s, search.ef, search.t)
                    <= HopDistance(ug, search.s, search.ef, x)

\* a breadth-first search on a reset searcher that returned a node two hops
\* away while a farther node was accepted too, and a failed one on a reset
\* depth-first searcher although the filter accepts a node
C19_Witness ==
    /\ search.op = "Search" /\ search.on = "reset"
    /\ \/ /\ searcher.kind = "bfs" /\ ~search.err
          /\ HopDistance(ug, search.s, search.ef, search.t) = 2
          /\ Cardinality(Targets) > 1
       \/ /\ searcher.kind = "dfs" /\ search.err /\ search.nf # {}


\* ------------------------------------------------- claims: contraction labels
\* the number of distinct labels the nodes of G carry in ind
NumLabels(G, ind) == Cardinality({ind[G.nodes[k]].label : k \in DOMAIN G.nodes})
\* the draws on a context that take an edge out of its selector
EdgeDraws(K) == {r \in Draws(selH[K.sel]) : Select(selH[K.sel], r).st = "ok"}
Drawn(K, r) == Edge(g, Select(selH[K.sel], r).index)
SameLabel(K, e) == indH[K.ind][e.u].label = indH[K.ind][e.v].label

\* C20: in every state the contexts reach from init by the merges of
\* randContract and randCompact and by clone, the nodes of g carry as many
\* distinct labels as the context's order says; an iteration that draws a
\* non-loop edge and merges it takes one from both, and an iteration that
\* draws a loop edge changes neither.
C20_LabelsCountOrder ==
    \A id \in DOMAIN kas :
       LET K == kas[id]
           n == NumLabels(g, indH[K.ind])
       IN /\ n = K.order
          /\ \A r \in EdgeDraws(K) :
                LET res == contractIter(g, K.order, indH[K.ind], selH[K.sel], r)
                    d == IF SameLabel(K, Drawn(K, r)) THEN 0 ELSE 1
                IN res.order = K.order - d /\ NumLabels(g, res.ind) = n - d

\* two contexts, one of them a clone, of which one has merged edges and can
\* still draw both a loop between two nodes of one super-node and a non-loop edge
C20_Witness ==
    /\ Cardinality(DOMAIN kas) > 1
    /\ \E id \in DOMAIN kas :
          LET K == kas[id] IN
          /\ K.order < Order(g)
          /\ \E r \in EdgeDraws(K) :
                SameLabel(K, Drawn(K, r)) /\ Drawn(K, r).u # Drawn(K, r).v
          /\ \E r \in EdgeDraws(K) : ~SameLabel(K, Drawn(K, r))


\* following label once from a node of G gives a label that is its own label
OneHop(G, ind) ==
    \A k \in DOMAIN G.nodes :
       LET l == ind[G.nodes[k]].label IN l \in DOMAIN ind /\ ind[l].label = l
\* the draws on a context that take a non-loop edge
MergeDraws(K) == {r \in EdgeDraws(K) : ~SameLabel(K, Drawn(K, r))}
\* the super-node array a context has after the iteration with draw r
AfterDraw(K, r) == contractIter(g, K.order, indH[K.ind], selH[K.sel], r).ind
\* the number of nodes of g in the super-node of node n
GroupSize(K, n) ==
    Cardinality({k \in DOMAIN g.nodes :
                    indH[K.ind][g.nodes[k]].label = indH[K.ind][n].label})

\* C21: after every merge label[label[i]] = label[i] for every node id i of
\* g: no chain of labels forms, also when the absorbed super-node had several
\* members already.
C21_NoLabelChains ==
    \A id \in DOMAIN kas :
       LET K == kas[id] IN
       /\ OneHop(g, indH[K.ind])
       /\ \A r \in MergeDraws(K) : OneHop(g, AfterDraw(K, r))

\* a context that has merged before and can merge two super-nodes of two or
\* more nodes each
C21_Witness ==
    \E id \in DOMAIN kas :
       LET K == kas[id] IN
       /\ K.order < Order(g)
       /\ \E r \in MergeDraws(K) :
             GroupSize(K, Drawn(K, r).u) >= 2 /\ GroupSize(K, Drawn(K, r).v) >= 2


\* --------------------------------------------------- claims: empty selector
\* task t is in a contraction loop whose condition holds: its next step is a
\* call of Select on the selector of context Contracted(t)
Contracted(t) == IF Top(t).pc = "compact" THEN Top(t).ka ELSE Cur(Top(t))
Contracting(t) ==
    /\ Running(t)
    /\ \/ /\ Top(t).fn = "frmc" /\ Top(t).pc = "compact"
          /\ contractMore(kas[Top(t).ka].order, 2)
       \/ /\ Top(t).fn \in {"frmc", "go"} /\ Top(t).pc = "contract"
          /\ contractMore(kas[Cur(Top(t))].order, Top(t).t)

\* C22: in every driver run on every graph, graphs with no edge and more than
\* two nodes included, contraction never calls Select on a selector of length
\* zero (where Select reads s[0] out of range instead of returning
\* SelectorEmpty).
C22_NoSelectOnEmpty ==
    \A t \in DOMAIN tasks :
       Contracting(t) => Len(selH[kas[Contracted(t)].sel]) > 0


\* ------------------------------------------------------ claims: member lists
\* the ids of the nodes of G labelled l in ind
Labelled(G, ind, l) == {G.nodes[k] : k \in DOMAIN G.nodes} \cap {n \in DOMAIN ind : ind[n].label = l}
\* member lists sit on representatives only; the list of a representative of
\* two or more nodes holds exactly the nodes labelled with it, each once; a
\* super-node of one node has no list
MembersExact(G, ind) ==
    \A i \in DOMAIN ind :
       LET list == ind[i].nodes
           group == Labelled(G, ind, i)
       IN /\ list # <<>> => ind[i].label = i
          /\ Cardinality(group) >= 2 =>
                /\ {list[k] : k \in DOMAIN list} = group
                /\ Len(list) = Cardinality(group)
          /\ Cardinality(group) <= 1 => list = <<>>
\* the two labels of a merge of edge e after the swap by size: hl absorbs tl
Absorbing(ind, e) ==
    IF Len(ind[ind[e.v].label].nodes) < Len(ind[ind[e.u].label].nodes)
    THEN ind[e.u].label ELSE ind[e.v].label
Absorbed(ind, e) ==
    IF Len(ind[ind[e.v].label].nodes) < Len(ind[ind[e.u].label].nodes)
    THEN ind[e.v].label ELSE ind[e.u].label

\* C23: in every reachable contraction state a member list is present only on
\* a representative label, a representative of two or more nodes has as
\* members exactly the node ids labelled with it, and a super-node of one node
\* has no list; so at a merge, after the swap by size, the absorbing list is
\* never absent while the absorbed one is non-empty.
C23_MemberLists ==
    \A id \in DOMAIN kas :
       LET K == kas[id]
           ind == indH[K.ind]
       IN /\ MembersExact(g, ind)
          /\ \A r \in MergeDraws(K) :
                /\ ind[Absorbing(ind, Drawn(K, r))].nodes = <<>>
                      => ind[Absorbed(ind, Drawn(K, r))].nodes = <<>>
                /\ MembersExact(g, AfterDraw(K, r))

\* context id was made by clone and is still a frame's sub[1]
IsClone(id) ==
    \E t \in DOMAIN tasks : \E k \in DOMAIN tasks[t].stack : tasks[t].stack[k].sub1 = id

\* a clone that can merge a super-node of two nodes with a single node, beside
\* a context that holds a super-node of four nodes or more
C23_Witness ==
    /\ \E id \in DOMAIN kas :
          /\ IsClone(id)
          /\ \E r \in MergeDraws(kas[id]) :
                {GroupSize(kas[id], Drawn(kas[id], r).u),
                 GroupSize(kas[id], Drawn(kas[id], r).v)} = {1, 2}
    /\ \E id \in DOMAIN kas : \E i \in DOMAIN indH[kas[id].ind] :
          Len(indH[kas[id].ind][i].nodes) >= 4

====
